---- MODULE Spec2Model ----
(***************************************************************************)
(* internal::hp::DoFLevel<dim> (deal.II/hp/dof_levels.h): the hp DoF index *)
(* store of one level.  Three vectors (active_fe_indices, dof_offsets,     *)
(* dofs) and the accessors set_dof_index, get_dof_index,                   *)
(* n_active_fe_indices, nth_active_fe_index and fe_index_is_active.        *)
(*                                                                         *)
(* C++ vectors are 0-based; a vector is modelled as a sequence and         *)
(* element i of the C++ vector is element i+1 of the sequence.             *)
(* Assert(cond, exc) is modelled for a build with assertions enabled: when *)
(* cond is false the call ends with exc and nothing after it is executed.  *)
(***************************************************************************)
EXTENDS Integers, Sequences, FiniteSets

VARIABLES active_fe_indices, dof_offsets, dofs, assigned, out

vars == <<active_fe_indices, dof_offsets, dofs, assigned, out>>

(* ---------------------------------------------------------------- bounds *)

\* largest number of objects a level holds
MaxObjects == 2

\* largest number of objects of a level of sub-cell objects
MaxSubObjects == 1

(* ------------------------------------------------------------- constants *)

\* numbers::invalid_dof_index: the largest value of types::global_dof_index,
\* scaled to 8 bits; no arithmetic of the accessors can reach it.
invalid_dof_index == 255

\* hp::DoFHandler::default_fe_index (numbers::invalid_unsigned_int), scaled alike
default_fe_index == 255

\* the element collection dof_handler.get_fe(): entry v+1 is
\* get_fe()[v].n_dofs_per_object<dim>()
fe_collection == <<2, 1, 0>>

fe_size == Len(fe_collection)

n_dofs_per_object(fe_index) == fe_collection[fe_index + 1]

\* the global indices the numbering pass hands to set_dof_index; the accessors
\* never inspect the value, two ordinary ids and the sentinel cover the cases
GlobalIds == {0, 1, invalid_dof_index}

\* argument values tried by the callers: every valid one and one or two beyond
ObjArgs == 0 .. MaxObjects
FeArgs == (0 .. fe_size) \cup {default_fe_index}
LocalArgs == 0 .. 2
NthArgs == 0 .. 2

(* ------------------------------------------------------------ the store *)

\* the DoFLevel object an accessor is called on (C++ this)
this ==
  [active_fe_indices |-> active_fe_indices,
   dof_offsets       |-> dof_offsets,
   dofs              |-> dofs]

\* what an unchecked std::vector read beyond the end can yield
GarbageUInt == FeArgs
GarbageDof == GlobalIds

\* active_fe_indices[obj_index]: operator[] does no range check, so beyond the
\* end the read is undefined behaviour: any value
read_active_fe_index(self, obj_index) ==
  IF obj_index < Len(self.active_fe_indices)
    THEN {self.active_fe_indices[obj_index + 1]}
    ELSE GarbageUInt

\* mutant: the local index is left out of the location
dof_location_without_local(self, obj_index, local_index) ==
  self.dof_offsets[obj_index + 1]

\* dof_offsets[obj_index] + local_index
dof_location(self, obj_index, local_index) ==
  self.dof_offsets[obj_index + 1] + local_index

\* mutant: the entry after the addressed one is read
read_dof_next(self, location) ==
  IF location + 1 < Len(self.dofs)
    THEN {self.dofs[location + 2]}
    ELSE GarbageDof

\* dofs[location] as an rvalue
read_dof(self, location) ==
  IF location < Len(self.dofs)
    THEN {self.dofs[location + 1]}
    ELSE GarbageDof

\* mutant: the write also overwrites the entry after the addressed one
write_dof_and_next(self, location, global_index) ==
  [self EXCEPT !.dofs =
     [k \in 1 .. Len(self.dofs) |->
        IF k \in {location + 1, location + 2} THEN global_index
        ELSE self.dofs[k]]]

\* mutant: the bitwise complement of the global index is stored (~0 is the
\* sentinel)
write_dof_complement(self, location, global_index) ==
  IF location < Len(self.dofs)
    THEN [self EXCEPT !.dofs[location + 1] = invalid_dof_index - global_index]
    ELSE self

\* dofs[location] = global_index; beyond the end the write lands outside the
\* vector and the three vectors keep their contents
write_dof(self, location, global_index) ==
  IF location < Len(self.dofs)
    THEN [self EXCEPT !.dofs[location + 1] = global_index]
    ELSE self

\* an access beyond the end of a vector may also end the program
MayCrash(vec, index) == index >= Len(vec)

(* -------------------------------------------------- results of one call *)

\* exc: "none" or the failed Assert; ret: the value returned (-1: none);
\* self: the store after the call; a_idx, d_idx: the elements of
\* active_fe_indices and dofs the call touched (-1: none)
Outcome(self, exc, ret, a_idx, d_idx) ==
  [exc |-> exc, ret |-> ret, self |-> self, a_idx |-> a_idx, d_idx |-> d_idx]

Fail(self, exc) == Outcome(self, exc, -1, -1, -1)

(* --------------------------------------------------- the Asserts' tests *)

\* mutant: the test for the unspecified variant is missing
fe_index_specified_unchecked(fe_index) == TRUE

fe_index_specified(fe_index) == fe_index # default_fe_index

fe_index_in_range(fe_index) == fe_index < fe_size

\* mutant: <= in place of <
local_index_in_range_inclusive(fe_index, local_index) ==
  local_index <= n_dofs_per_object(fe_index)

local_index_in_range(fe_index, local_index) ==
  local_index < n_dofs_per_object(fe_index)

obj_index_in_range(self, obj_index) == obj_index < Len(self.dof_offsets)

dofs_allocated(self, obj_index) ==
  self.dof_offsets[obj_index + 1] # invalid_dof_index

(* -------------------------------------------------------- the accessors *)

\* Each accessor yields the set of outcomes the call can have: one outcome
\* wherever the behaviour is defined.

\* the tests get_dof_index and set_dof_index make before touching
\* active_fe_indices, in the order of the code: "none" when all pass
access_precondition(self, obj_index, fe_index, local_index) ==
  IF ~fe_index_specified(fe_index) THEN "UnspecifiedVariant"
  ELSE IF ~fe_index_in_range(fe_index) THEN "VariantOutOfRange"
  ELSE IF ~local_index_in_range(fe_index, local_index) THEN "LocalSlotOutOfRange"
  ELSE IF ~obj_index_in_range(self, obj_index) THEN "ObjectIndexOutOfRange"
  ELSE IF ~dofs_allocated(self, obj_index) THEN "NoDoFsHere"
  ELSE "none"

get_dof_index(self, obj_index, fe_index, local_index) ==
  LET pre == access_precondition(self, obj_index, fe_index, local_index)
      loc == dof_location(self, obj_index, local_index)
  IN  IF pre # "none" THEN {Fail(self, pre)}
      ELSE UNION {
             IF fe_index # a
               THEN {Outcome(self, "WrongVariant", -1, obj_index, -1)}
               ELSE {Outcome(self, "none", r, obj_index, loc) :
                       r \in read_dof(self, loc)}
                    \cup (IF MayCrash(self.dofs, loc)
                            THEN {Outcome(self, "Segfault", -1, obj_index, loc)}
                            ELSE {})
             : a \in read_active_fe_index(self, obj_index) }
           \cup (IF MayCrash(self.active_fe_indices, obj_index)
                   THEN {Outcome(self, "Segfault", -1, obj_index, -1)}
                   ELSE {})

\* mutant: the write is made before the test of the variant
set_dof_index_write_first(self, obj_index, fe_index, local_index, global_index) ==
  LET pre == access_precondition(self, obj_index, fe_index, local_index)
      loc == self.dof_offsets[obj_index + 1] + local_index
      written == IF loc < Len(self.dofs)
                   THEN [self EXCEPT !.dofs[loc + 1] = global_index]
                   ELSE self
  IN  IF pre # "none" THEN {Fail(self, pre)}
      ELSE {IF fe_index # a
              THEN Outcome(written, "WrongVariant", -1, obj_index, loc)
              ELSE Outcome(written, "none", -1, obj_index, loc)
            : a \in read_active_fe_index(self, obj_index)}

set_dof_index(self, obj_index, fe_index, local_index, global_index) ==
  LET pre == access_precondition(self, obj_index, fe_index, local_index)
      loc == dof_location(self, obj_index, local_index)
  IN  IF pre # "none" THEN {Fail(self, pre)}
      ELSE UNION {
             IF fe_index # a
               THEN {Outcome(self, "WrongVariant", -1, obj_index, -1)}
               ELSE {Outcome(write_dof(self, loc, global_index),
                             "none", -1, obj_index, loc)}
                    \cup (IF MayCrash(self.dofs, loc)
                            THEN {Outcome(self, "Segfault", -1, obj_index, loc)}
                            ELSE {})
             : a \in read_active_fe_index(self, obj_index) }
           \cup (IF MayCrash(self.active_fe_indices, obj_index)
                   THEN {Outcome(self, "Segfault", -1, obj_index, -1)}
                   ELSE {})

\* mutant: the test for an object without DoFs is missing
n_active_fe_indices_always_one(self, obj_index) ==
  IF ~obj_index_in_range(self, obj_index)
    THEN {Fail(self, "ObjectIndexOutOfRange")}
  ELSE {Outcome(self, "none", 1, -1, -1)}

n_active_fe_indices(self, obj_index) ==
  IF ~obj_index_in_range(self, obj_index)
    THEN {Fail(self, "ObjectIndexOutOfRange")}
  ELSE IF ~dofs_allocated(self, obj_index)
    THEN {Outcome(self, "none", 0, -1, -1)}
  ELSE {Outcome(self, "none", 1, -1, -1)}

nth_active_fe_index(self, obj_index, n) ==
  IF ~obj_index_in_range(self, obj_index)
    THEN {Fail(self, "ObjectIndexOutOfRange")}
  ELSE IF ~dofs_allocated(self, obj_index)
    THEN {Fail(self, "NoDoFsHere")}
  ELSE IF n # 0
    THEN {Fail(self, "IndexOutOfRange")}
  ELSE {Outcome(self, "none", a, obj_index, -1) :
          a \in read_active_fe_index(self, obj_index)}
       \cup (IF MayCrash(self.active_fe_indices, obj_index)
               THEN {Outcome(self, "Segfault", -1, obj_index, -1)}
               ELSE {})

\* the result is a bool: 1 for true, 0 for false
fe_index_is_active(self, obj_index, fe_index) ==
  IF ~obj_index_in_range(self, obj_index)
    THEN {Fail(self, "ObjectIndexOutOfRange")}
  ELSE IF ~fe_index_specified(fe_index)
    THEN {Fail(self, "UnspecifiedVariant")}
  ELSE IF ~fe_index_in_range(fe_index)
    THEN {Fail(self, "VariantOutOfRange")}
  ELSE IF ~dofs_allocated(self, obj_index)
    THEN {Fail(self, "NoDoFsHere")}
  ELSE IF ~(obj_index < Len(self.active_fe_indices))
    THEN {Fail(self, "InternalError")}
  ELSE {Outcome(self, "none",
                IF fe_index = self.active_fe_indices[obj_index + 1] THEN 1 ELSE 0,
                obj_index, -1)}

(* ------------------------------------------------------------ lifecycle *)

\* The vectors are sized and filled outside this class (by the DoF handler's
\* reserve pass): one plan entry per object, its slice of dofs if it has one.
RECURSIVE layout_offsets(_, _)
layout_offsets(plan, start) ==
  IF plan = <<>> THEN <<>>
  ELSE IF Head(plan).alloc
    THEN <<start>> \o layout_offsets(Tail(plan), start + Len(Head(plan).payload))
    ELSE <<invalid_dof_index>> \o layout_offsets(Tail(plan), start)

RECURSIVE layout_dofs(_)
layout_dofs(plan) ==
  IF plan = <<>> THEN <<>>
  ELSE (IF Head(plan).alloc THEN Head(plan).payload ELSE <<>>)
       \o layout_dofs(Tail(plan))

\* the slice of a cell that uses element fe_index: its DoF block, unassigned
cell_payload(fe_index) ==
  [j \in 1 .. n_dofs_per_object(fe_index) |-> invalid_dof_index]

\* the call that has just ended: its arguments, the failed Assert or
\* "none", the value returned (-1: none) and the elements of
\* active_fe_indices and dofs it touched (-1: none)
Called(op, args, o) ==
  [op |-> op, args |-> args, exc |-> o.exc, ret |-> o.ret,
   a_idx |-> o.a_idx, d_idx |-> o.d_idx]

\* the caller is between two calls
NoCall ==
  [op |-> "none", args |-> <<>>, exc |-> "none", ret |-> -1,
   a_idx |-> -1, d_idx |-> -1]

IsEmpty == Len(dof_offsets) = 0

Init ==
  /\ active_fe_indices = <<>>
  /\ dof_offsets = <<>>
  /\ dofs = <<>>
  /\ assigned = <<>>
  /\ out = NoCall

\* reserve of a cell-level store: n cells, each with its element, some without
\* DoFs (cells that are not active)
ReserveCells ==
  /\ IsEmpty
  /\ out = NoCall
  /\ \E n \in 1 .. MaxObjects :
       \E act \in [1 .. n -> 0 .. fe_size - 1], alloc \in [1 .. n -> BOOLEAN] :
         LET plan == [i \in 1 .. n |->
                        [alloc |-> alloc[i], payload |-> cell_payload(act[i])]]
         IN  /\ active_fe_indices' = act
             /\ dof_offsets' = layout_offsets(plan, 0)
             /\ dofs' = layout_dofs(plan)
  /\ assigned' = <<>>
  /\ out' = [NoCall EXCEPT !.op = "reserve"]

\* the caller takes the result of the call and goes on: calls are made one
\* after the other; an access beyond a vector's end may have ended the program
Return ==
  /\ out # NoCall
  /\ out.exc # "Segfault"
  /\ out' = NoCall
  /\ UNCHANGED <<active_fe_indices, dof_offsets, dofs, assigned>>

\* assigned: for each (obj_index, fe_index, local_index) a set_dof_index
\* succeeded on, the value of the last one (history, not part of the store)
Remember(triple, global_index) ==
  [t \in DOMAIN assigned \cup {triple} |->
     IF t = triple THEN global_index ELSE assigned[t]]

SetDofIndex ==
  /\ out = NoCall
  /\ \E obj_index \in ObjArgs, fe_index \in FeArgs, local_index \in LocalArgs,
        global_index \in GlobalIds :
       \E o \in set_dof_index(this, obj_index, fe_index, local_index, global_index) :
         /\ active_fe_indices' = o.self.active_fe_indices
         /\ dof_offsets' = o.self.dof_offsets
         /\ dofs' = o.self.dofs
         /\ assigned' = IF o.exc = "none"
                          THEN Remember(<<obj_index, fe_index, local_index>>,
                                        global_index)
                          ELSE assigned
         /\ out' = Called("set_dof_index",
                         <<obj_index, fe_index, local_index, global_index>>, o)

GetDofIndex ==
  /\ out = NoCall
  /\ \E obj_index \in ObjArgs, fe_index \in FeArgs, local_index \in LocalArgs :
       \E o \in get_dof_index(this, obj_index, fe_index, local_index) :
         /\ out' = Called("get_dof_index",
                         <<obj_index, fe_index, local_index>>, o)
         /\ UNCHANGED <<active_fe_indices, dof_offsets, dofs, assigned>>

NActiveFeIndices ==
  /\ out = NoCall
  /\ \E obj_index \in ObjArgs :
       \E o \in n_active_fe_indices(this, obj_index) :
         /\ out' = Called("n_active_fe_indices", <<obj_index>>, o)
         /\ UNCHANGED <<active_fe_indices, dof_offsets, dofs, assigned>>

NthActiveFeIndex ==
  /\ out = NoCall
  /\ \E obj_index \in ObjArgs, n \in NthArgs :
       \E o \in nth_active_fe_index(this, obj_index, n) :
         /\ out' = Called("nth_active_fe_index", <<obj_index, n>>, o)
         /\ UNCHANGED <<active_fe_indices, dof_offsets, dofs, assigned>>

FeIndexIsActive ==
  /\ out = NoCall
  /\ \E obj_index \in ObjArgs, fe_index \in FeArgs :
       \E o \in fe_index_is_active(this, obj_index, fe_index) :
         /\ out' = Called("fe_index_is_active", <<obj_index, fe_index>>, o)
         /\ UNCHANGED <<active_fe_indices, dof_offsets, dofs, assigned>>

Next ==
  \/ ReserveCells
  \/ SetDofIndex
  \/ GetDofIndex
  \/ NActiveFeIndices
  \/ NthActiveFeIndex
  \/ FeIndexIsActive
  \/ Return

Spec == Init /\ [][Next]_vars

(* ------------------------------------------------- a store of sub-cell objects *)

\* the end of an object's list of DoF sets ("we write a -1")
TERM == invalid_dof_index

\* the sequences of pairwise distinct elements an object can be shared by
RECURSIVE variant_lists(_)
variant_lists(len) ==
  IF len = 0 THEN {<<>>}
  ELSE {Append(vs, v) : vs \in variant_lists(len - 1), v \in 0 .. fe_size - 1}

distinct_variant_lists ==
  {vs \in UNION {variant_lists(len) : len \in 1 .. fe_size} :
     \A a, b \in 1 .. Len(vs) : a # b => vs[a] # vs[b]}

\* the slice of a sub-cell object: for each element its index and its DoF
\* block, unassigned, then the end marker
RECURSIVE linked_list_payload(_)
linked_list_payload(vs) ==
  IF vs = <<>> THEN <<TERM>>
  ELSE <<Head(vs)>> \o cell_payload(Head(vs)) \o linked_list_payload(Tail(vs))

\* reserve of a level of sub-cell objects (structdim below the cell
\* dimension): active_fe_indices is not populated
ReserveSubCells ==
  /\ IsEmpty
  /\ out = NoCall
  /\ \E n \in 1 .. MaxSubObjects :
       \E lists \in [1 .. n -> distinct_variant_lists \cup {<<>>}] :
         LET plan == [i \in 1 .. n |->
                        [alloc |-> lists[i] # <<>>,
                         payload |-> linked_list_payload(lists[i])]]
         IN  /\ active_fe_indices' = <<>>
             /\ dof_offsets' = layout_offsets(plan, 0)
             /\ dofs' = layout_dofs(plan)
  /\ assigned' = <<>>
  /\ out' = [NoCall EXCEPT !.op = "reserve"]

NextSub ==
  \/ ReserveSubCells
  \/ SetDofIndex
  \/ GetDofIndex
  \/ NActiveFeIndices
  \/ NthActiveFeIndex
  \/ FeIndexIsActive
  \/ Return

SpecSub == Init /\ [][NextSub]_vars

(* ------------------------------------------- vocabulary of the properties *)

Ok(o) == o.exc = "none"

\* object obj_index exists and has a slice of dofs
Allocated(obj_index) ==
  /\ obj_index < Len(dof_offsets)
  /\ dof_offsets[obj_index + 1] # invalid_dof_index

\* on a cell-level store: (i, v, l) names a slot of an allocated object i that
\* carries v
ValidVariant(v) == v # default_fe_index /\ v < fe_size

ValidTriple(i, v, l) ==
  /\ ValidVariant(v)
  /\ l < fe_collection[v + 1]
  /\ Allocated(i)
  /\ v = active_fe_indices[i + 1]

ValidTriples ==
  {t \in ObjArgs \X (0 .. fe_size - 1) \X LocalArgs : ValidTriple(t[1], t[2], t[3])}

\* the lifecycle states
Ready == \E k \in 1 .. Len(dofs) : dofs[k] # invalid_dof_index
Sized == ~IsEmpty /\ ~Ready

IsAccess == out.op \in {"get_dof_index", "set_dof_index"}

\* what the caller sees of a call: how it ended and the value returned
Results(outcomes) == {[exc |-> o.exc, ret |-> o.ret] : o \in outcomes}

\* every outcome of the call is a normal return of value
Returns(outcomes, value) ==
  /\ outcomes # {}
  /\ \A o \in outcomes : Ok(o) /\ o.ret = value

(* ---------------------------------------------------------------- claims *)

\* C1: round trip. Whenever a call can be made, for every triple (i, v, l) on
\* which a set_dof_index has succeeded, get_dof_index(i, v, l) returns the
\* value of the last such set, whatever the slot held before and whatever
\* sets on other slots came in between; and a get_dof_index call that was
\* made on such a triple returned that value.
RoundTrip ==
  /\ out = NoCall =>
       \A t \in DOMAIN assigned :
         Returns(get_dof_index(this, t[1], t[2], t[3]), assigned[t])
  /\ (out.op = "get_dof_index" /\ out.args \in DOMAIN assigned)
       => (out.exc = "none" /\ out.ret = assigned[out.args])

\* a get returned 1 from a slot set to 1 while another slot of the same
\* object holds 0 from another set
RoundTripWitness ==
  /\ out.op = "get_dof_index"
  /\ out.exc = "none"
  /\ out.args \in DOMAIN assigned
  /\ out.ret = 1
  /\ \E t \in DOMAIN assigned :
       t # out.args /\ t[1] = out.args[1] /\ assigned[t] = 0

\* C2: non-interference. A successful set_dof_index(i, v, l, g) leaves
\* active_fe_indices and dof_offsets as they were, keeps the length of dofs,
\* changes no entry of dofs but the one at dof_offsets[i] + l, which now holds
\* g, and get_dof_index on every other valid triple returns what it returned
\* before.
NonInterference ==
  [][(out'.op = "set_dof_index" /\ out'.exc = "none") =>
       LET i == out'.args[1]
           l == out'.args[3]
           g == out'.args[4]
           addressed == dof_offsets[i + 1] + l + 1
       IN  /\ active_fe_indices' = active_fe_indices
           /\ dof_offsets' = dof_offsets
           /\ Len(dofs') = Len(dofs)
           /\ addressed \in 1 .. Len(dofs)
           /\ dofs'[addressed] = g
           /\ \A k \in 1 .. Len(dofs) : k # addressed => dofs'[k] = dofs[k]
           /\ \A t \in ValidTriples :
                t # <<i, out'.args[2], l>> =>
                  Results(get_dof_index(this', t[1], t[2], t[3]))
                    = Results(get_dof_index(this, t[1], t[2], t[3]))
    ]_vars

\* a set has just succeeded on one object while a slot of another object
\* holds a global id
NonInterferenceWitness ==
  /\ out.op = "set_dof_index"
  /\ out.exc = "none"
  /\ \E t \in DOMAIN assigned :
       /\ t[1] # out.args[1]
       /\ assigned[t] # invalid_dof_index
       /\ Returns(get_dof_index(this, t[1], t[2], t[3]), assigned[t])

\* C3: failure atomicity. A set_dof_index call that fails a check leaves
\* active_fe_indices, dof_offsets and dofs exactly as they were.
FailureAtomicity ==
  [][(out'.op = "set_dof_index" /\ out'.exc # "none") =>
       /\ active_fe_indices' = active_fe_indices
       /\ dof_offsets' = dof_offsets
       /\ dofs' = dofs
    ]_vars

\* a set with the wrong variant has just failed on an object whose slots hold
\* global ids
FailureAtomicityWitness ==
  /\ out.op = "set_dof_index"
  /\ out.exc = "WrongVariant"
  /\ \E t \in DOMAIN assigned :
       t[1] = out.args[1] /\ assigned[t] # invalid_dof_index

\* C4: on a cell-level store a get_dof_index or set_dof_index call succeeds
\* exactly when the variant is specified and in the collection, the local
\* slot is below the variant's DoF count, the object exists, has DoFs and
\* carries the variant. When one of these alone is violated the call fails
\* with the matching error: a variant beyond the collection with
\* VariantOutOfRange, a local slot at or above the count with
\* LocalSlotOutOfRange, an unallocated object with NoDoFsHere, a variant other
\* than the object's with WrongVariant.
AccessPreconditions ==
  IsAccess =>
    LET i == out.args[1]
        v == out.args[2]
        l == out.args[3]
        exists == i < Len(dof_offsets)
        carried == exists /\ v = active_fe_indices[i + 1]
    IN  /\ out.exc = "none" <=> ValidTriple(i, v, l)
        /\ (v # default_fe_index /\ v >= fe_size /\ Allocated(i))
             => out.exc = "VariantOutOfRange"
        /\ (ValidVariant(v) /\ l >= fe_collection[v + 1] /\ Allocated(i) /\ carried)
             => out.exc = "LocalSlotOutOfRange"
        /\ (ValidVariant(v) /\ l < fe_collection[v + 1] /\ exists
              /\ ~Allocated(i) /\ carried)
             => out.exc = "NoDoFsHere"
        /\ (ValidVariant(v) /\ l < fe_collection[v + 1] /\ Allocated(i) /\ ~carried)
             => out.exc = "WrongVariant"

\* a set with local slot k_v has just failed with LocalSlotOutOfRange on an
\* object whose slot k_v - 1 was set before
AccessPreconditionsWitness ==
  /\ out.op = "set_dof_index"
  /\ out.exc = "LocalSlotOutOfRange"
  /\ ValidVariant(out.args[2])
  /\ out.args[3] = fe_collection[out.args[2] + 1]
  /\ <<out.args[1], out.args[2], out.args[3] - 1>> \in DOMAIN assigned

\* C5: a get_dof_index or set_dof_index call with the unspecified variant
\* fails with UnspecifiedVariant for every object id and every local slot; a
\* call with a valid variant, a valid local slot and an object id at or
\* beyond the length of dof_offsets fails with ObjectIndexOutOfRange.
ErrorIdentity ==
  IsAccess =>
    LET i == out.args[1]
        v == out.args[2]
        l == out.args[3]
    IN  /\ v = default_fe_index => out.exc = "UnspecifiedVariant"
        /\ (ValidVariant(v) /\ l < fe_collection[v + 1] /\ i >= Len(dof_offsets))
             => out.exc = "ObjectIndexOutOfRange"

\* a get with the unspecified variant has just failed with UnspecifiedVariant
\* on a sized store although its object id and local slot are out of range too
ErrorIdentityWitness ==
  /\ out.op = "get_dof_index"
  /\ out.args[2] = default_fe_index
  /\ out.exc = "UnspecifiedVariant"
  /\ ~IsEmpty
  /\ out.args[1] >= Len(dof_offsets)
  /\ out.args[3] >= 2

\* C6: whenever a call can be made on a cell-level store, for every object i:
\* without DoFs n_active_fe_indices(i) = 0; with DoFs n_active_fe_indices(i)
\* = 1, nth_active_fe_index(i, 0) = active_fe_indices[i],
\* nth_active_fe_index(i, n) fails with IndexOutOfRange for n >= 1, and
\* fe_index_is_active(i, v) is true exactly when v = active_fe_indices[i]; and
\* the calls made returned just that.
Introspection ==
  /\ out = NoCall => \A i \in 0 .. Len(dof_offsets) - 1 :
       IF ~Allocated(i)
         THEN Returns(n_active_fe_indices(this, i), 0)
         ELSE /\ Returns(n_active_fe_indices(this, i), 1)
              /\ Returns(nth_active_fe_index(this, i, 0), active_fe_indices[i + 1])
              /\ \A n \in NthArgs \ {0} :
                   Results(nth_active_fe_index(this, i, n))
                     = {[exc |-> "IndexOutOfRange", ret |-> -1]}
              /\ \A v \in 0 .. fe_size - 1 :
                   Returns(fe_index_is_active(this, i, v),
                           IF v = active_fe_indices[i + 1] THEN 1 ELSE 0)
  /\ (out.op = "n_active_fe_indices" /\ out.args[1] < Len(dof_offsets))
       => (out.exc = "none"
             /\ out.ret = IF Allocated(out.args[1]) THEN 1 ELSE 0)
  /\ (out.op = "nth_active_fe_index" /\ Allocated(out.args[1]))
       => IF out.args[2] = 0
            THEN out.exc = "none" /\ out.ret = active_fe_indices[out.args[1] + 1]
            ELSE out.exc = "IndexOutOfRange"
  /\ (out.op = "fe_index_is_active" /\ Allocated(out.args[1])
        /\ ValidVariant(out.args[2]))
       => (out.exc = "none"
             /\ (out.ret = 1 <=> out.args[2] = active_fe_indices[out.args[1] + 1]))

\* fe_index_is_active(1, 0) has just returned false on a store whose cell 1
\* uses element 1, after global ids were set on that cell
IntrospectionWitness ==
  /\ out.op = "fe_index_is_active"
  /\ out.args = <<1, 0>>
  /\ out.exc = "none"
  /\ out.ret = 0
  /\ Allocated(1)
  /\ active_fe_indices[2] = 1
  /\ \E t \in DOMAIN assigned : t[1] = 1 /\ assigned[t] # invalid_dof_index

\* C9: whenever a call can be made, for every valid triple on which no
\* set_dof_index has succeeded, get_dof_index returns UNASSIGNED_DOF as a
\* normal return, whatever was set on other triples; and a get_dof_index call
\* made on such a triple returned it.
ReadBeforeWrite ==
  /\ out = NoCall =>
       \A t \in ValidTriples \ DOMAIN assigned :
         Returns(get_dof_index(this, t[1], t[2], t[3]), invalid_dof_index)
  /\ (out.op = "get_dof_index" /\ out.exc = "none"
        /\ out.args \notin DOMAIN assigned)
       => out.ret = invalid_dof_index

\* a get has just returned UNASSIGNED_DOF from a slot never set while the
\* other slot of the same object holds a global id
ReadBeforeWriteWitness ==
  /\ out.op = "get_dof_index"
  /\ out.exc = "none"
  /\ out.ret = invalid_dof_index
  /\ out.args \notin DOMAIN assigned
  /\ \E t \in DOMAIN assigned :
       t[1] = out.args[1] /\ assigned[t] # invalid_dof_index

RECURSIVE ListedVariants(_)
ListedVariants(cursor) ==
  IF cursor >= Len(dofs) THEN <<>>
  ELSE IF dofs[cursor + 1] = TERM \/ dofs[cursor + 1] >= fe_size THEN <<>>
  ELSE <<dofs[cursor + 1]>>
         \o ListedVariants(cursor + 1 + fe_collection[dofs[cursor + 1] + 1])

\* where the walk of the list from cursor finds the record of v: the index of
\* its header in dofs, or -1 when TERM comes first
RECURSIVE RecordOf(_, _)
RecordOf(cursor, v) ==
  IF cursor >= Len(dofs) THEN -1
  ELSE IF dofs[cursor + 1] = TERM \/ dofs[cursor + 1] >= fe_size THEN -1
  ELSE IF dofs[cursor + 1] = v THEN cursor
  ELSE RecordOf(cursor + 1 + fe_collection[dofs[cursor + 1] + 1], v)

\* C7: on a sub-cell object with DoFs, n_active_fe_indices(i) returns the
\* number of records of the object's list and nth_active_fe_index(i, n), for
\* n below that number, the n-th element index in stored order (for an
\* object shared by elements 0 and 2: 2, and nth_active_fe_index(i, 1) = 2).
\* Stated for the calls that do not read active_fe_indices, which a level of
\* sub-cell objects does not have: n_active_fe_indices, and
\* nth_active_fe_index with n >= 1.
SubCellIntrospection ==
  (out.op \in {"n_active_fe_indices", "nth_active_fe_index"}
     /\ Allocated(out.args[1])) =>
    LET listed == ListedVariants(dof_offsets[out.args[1] + 1])
    IN  /\ out.op = "n_active_fe_indices"
             => (out.exc = "none" /\ out.ret = Len(listed))
        /\ (out.op = "nth_active_fe_index"
              /\ out.args[2] >= 1 /\ out.args[2] < Len(listed))
             => (out.exc = "none" /\ out.ret = listed[out.args[2] + 1])

\* C8: on a sub-cell object with DoFs, a get_dof_index or set_dof_index call
\* with a valid variant v and local slot l walks the object's list: when v
\* has a record, the call reads or writes the entry 1 + l past the record's
\* header and nothing else; when TERM comes first, it fails with
\* VariantNotOnObject and changes nothing.
SubCellWalk ==
  [][(/\ out'.op \in {"get_dof_index", "set_dof_index"}
      /\ ValidVariant(out'.args[2])
      /\ out'.args[3] < fe_collection[out'.args[2] + 1]
      /\ Allocated(out'.args[1])) =>
       LET header == RecordOf(dof_offsets[out'.args[1] + 1], out'.args[2])
           entry == header + 1 + out'.args[3] + 1
       IN  IF header = -1
             THEN out'.exc = "VariantNotOnObject" /\ dofs' = dofs
             ELSE /\ out'.exc = "none"
                  /\ out'.op = "get_dof_index"
                       => (out'.ret = dofs[entry] /\ dofs' = dofs)
                  /\ out'.op = "set_dof_index"
                       => dofs' = [dofs EXCEPT ![entry] = out'.args[4]]
    ]_vars

(* ------------------------------------------------------- claims on bounds *)

\* C11: bounds safety of the accessors. A get_dof_index or set_dof_index call
\* that passes the checks placed before its array accesses touches
\* active_fe_indices only at an index below the length of active_fe_indices
\* and dofs only at an index below the length of dofs, also on a store whose
\* active_fe_indices is not populated.
AccessInBounds ==
  IsAccess =>
    /\ out.a_idx # -1 => out.a_idx < Len(active_fe_indices)
    /\ out.d_idx # -1 => out.d_idx < Len(dofs)

====
